---- MODULE Spec2Model ----
(***************************************************************************)
(* The call-session controller of Flick (apps/phone/phone_helper.py): the  *)
(* daemon loop, the command mailbox, the radio, ringtone, audio-route and  *)
(* call-history helpers it drives, and the modem and the UI around it.     *)
(*                                                                         *)
(* Every helper of the source is an operator that takes the state it reads *)
(* and the outcome of each external call it makes, and returns the state   *)
(* it leaves plus the log of the external operations it issued, in order.  *)
(* The actions compose these operators the way daemon_mode and main do.    *)
(***************************************************************************)
EXTENDS Integers, Sequences, FiniteSets, TLC

VARIABLES
    pc,                 \* where the daemon loop stands: "top", "poll"
    cmd,                \* daemon_mode: cmd, the command read last (<<>>: none)
    last_state,         \* daemon_mode: last_state
    call_start,         \* daemon_mode: call_start (NoStart: None)
    call_number,        \* daemon_mode: call_number
    connected,          \* OfonoManager.connected
    active_call_path,   \* OfonoManager.active_call_path (NoCall: None)
    modem,              \* the modem's call: [state, number, id]
    cmdFile,            \* /tmp/flick_phone_cmd (<<>>: no file)
    historyFile,        \* call_history.json: [kind, entries]
    statusFile,         \* /tmp/flick_phone_status (<<>>: never written)
    radioTech,          \* the modem's TechnologyPreference
    ringtone_process,   \* module global ringtone_process (NoProc: None)
    procs,              \* ringtone processes alive
    spawned,            \* ringtone processes started so far
    route,              \* the audio route last commanded through run_pactl
    now,                \* time.time(), in seconds
    trace,              \* external operations issued by the latest step, in order
    obs                 \* what the latest steps observed (history variable)

ctlVars   == <<pc, cmd, last_state, call_start, call_number>>
ofonoVars == <<connected, active_call_path>>
ringVars  == <<ringtone_process, procs, spawned>>
vars == <<pc, cmd, last_state, call_start, call_number, connected,
          active_call_path, modem, cmdFile, historyFile, statusFile, radioTech,
          ringtone_process, procs, spawned, route, now, trace, obs>>

----------------------------------------------------------------------------
(* Bounds of the model *)

MaxTime == 5            \* the controller specification stops the clock here
MaxCalls == 2           \* calls the modem carries in one run
MaxSubmits == 1         \* submissions the UI makes in one run
MaxRings == 2           \* ringtone processes started in one run
MaxAppends == 103       \* appends in the history-store specification
MaxRadioTime == 12      \* clock bound of the radio specification
MaxPactlFailures == 1   \* run_pactl calls that fail in one audio operation
MaxFaults == 1          \* operations with a failing external call in one run
MaxWrites == 2          \* submissions in the mailbox specification

Numbers == {"n1", "n2"}

(* Constants of the program *)

SettleDelay == 2
PollSleep == 1
ErrorSleep == 2
HistoryCap == 100

NoStart == 0            \* call_start = None; time.time() is never 0
NoProc == 0             \* ringtone_process = None
NoCall == 0             \* active_call_path = None

Min(a, b) == IF a <= b THEN a ELSE b

\* one external operation in a log: what was called, with what, and how it ended
Op(o, a, r) == [op |-> o, arg |-> a, res |-> r]

Ops(log) == {log[i] : i \in 1..Len(log)}

\* the first position of an operation o with argument a in a log, 0 if none
RECURSIVE IndexFrom(_, _, _, _)
IndexFrom(log, o, a, i) ==
    IF i > Len(log) THEN 0
    ELSE IF log[i].op = o /\ log[i].arg = a THEN i
    ELSE IndexFrom(log, o, a, i + 1)

IndexOf(log, o, a) == IndexFrom(log, o, a, 1)

Count(log, o) == Cardinality({i \in 1..Len(log) : log[i].op = o})

----------------------------------------------------------------------------
(* Radio Technology Controller *)

RadioTechs == {"lte", "gsm", "umts"}

\* the quoted strings in the reply of RadioSettings.GetProperties
RadioReply(tech) == {tech}

get_radio_mode(reply, ok) ==
    IF ~ok THEN "unknown"
    ELSE IF "lte" \in reply THEN "lte"
    ELSE IF "gsm" \in reply THEN "gsm"
    ELSE IF "umts" \in reply THEN "umts"
    ELSE "unknown"

\* the technology after SetProperty(TechnologyPreference, mode)
set_radio_mode(tech, mode, ok) == IF ok THEN mode ELSE tech

SetRes(ok) == IF ok THEN "ok" ELSE "failed"

switch_to_2g_always(tech, getOk, setOk) ==
    LET current == get_radio_mode(RadioReply(tech), getOk) IN
    [tech |-> set_radio_mode(tech, "gsm", setOk),
     slept |-> SettleDelay,
     log |-> << Op("get_radio_mode", "", current),
                Op("set_radio_mode", "gsm", SetRes(setOk)),
                Op("sleep", "settle", "") >>]

switch_to_2g_for_call(tech, getOk, setOk) ==
    LET current == get_radio_mode(RadioReply(tech), getOk) IN
    IF current # "gsm"
    THEN [tech |-> set_radio_mode(tech, "gsm", setOk),
          slept |-> SettleDelay,
          log |-> << Op("get_radio_mode", "", current),
                     Op("set_radio_mode", "gsm", SetRes(setOk)),
                     Op("sleep", "settle", "") >>]
    ELSE [tech |-> tech, slept |-> 0,
          log |-> << Op("get_radio_mode", "", current) >>]

restore_lte_after_call(tech, getOk, setOk) ==
    LET current == get_radio_mode(RadioReply(tech), getOk) IN
    IF current = "gsm"
    THEN [tech |-> set_radio_mode(tech, "lte", setOk),
          log |-> << Op("get_radio_mode", "", current),
                     Op("set_radio_mode", "lte", SetRes(setOk)) >>]
    ELSE [tech |-> tech,
          log |-> << Op("get_radio_mode", "", current) >>]

----------------------------------------------------------------------------
(* Feedback Controller *)

PlayOutcomes == {"spawn", "nofile", "error"}

\* "nofile": the sound file is missing; "error": Popen raised (caught)
play_ringtone(handle, alive, n, outcome) ==
    IF outcome = "spawn"
    THEN [handle |-> n + 1, procs |-> alive \cup {n + 1}, spawned |-> n + 1,
          log |-> << Op("Popen", "paplay", "ok") >>]
    ELSE [handle |-> handle, procs |-> alive, spawned |-> n,
          log |-> IF outcome = "error" THEN << Op("Popen", "paplay", "raised") >>
                  ELSE << >>]

stop_ringtone_keep_handle(handle, alive, termOk) ==
    IF handle = NoProc
    THEN [handle |-> handle, procs |-> alive, raised |-> FALSE, log |-> << >>]
    ELSE IF termOk \/ handle \notin alive
    THEN [handle |-> handle, procs |-> alive \ {handle}, raised |-> FALSE,
          log |-> << Op("terminate", "ringtone", "ok") >>]
    ELSE [handle |-> handle, procs |-> alive, raised |-> FALSE,
          log |-> << Op("terminate", "ringtone", "raised") >>]

\* terminate() signals a process that still runs and does nothing for one that
\* has exited; when it raises, the assignment of None after it is skipped and
\* the bare except swallows the error
stop_ringtone(handle, alive, termOk) ==
    IF handle = NoProc
    THEN [handle |-> handle, procs |-> alive, raised |-> FALSE, log |-> << >>]
    ELSE IF termOk \/ handle \notin alive
    THEN [handle |-> NoProc, procs |-> alive \ {handle}, raised |-> FALSE,
          log |-> << Op("terminate", "ringtone", "ok") >>]
    ELSE [handle |-> handle, procs |-> alive, raised |-> FALSE,
          log |-> << Op("terminate", "ringtone", "raised") >>]

\* trigger_haptic: one write to /tmp/flick_haptic, errors swallowed
trigger_haptic(ok) == << Op("haptic", "click", SetRes(ok)) >>

----------------------------------------------------------------------------
(* Audio Route Controller *)

DefaultRoute ==
    [profile |-> "default", outputPort |-> "speaker",
     inputPort |-> "builtin-mic", micMuted |-> FALSE]

Routes ==
    [profile : {"default", "voicecall"}, outputPort : {"earpiece", "speaker"},
     inputPort : {"builtin-mic", "voice-call-mic"}, micMuted : BOOLEAN]

SetupCmds ==
    << "set-card-profile voicecall", "set-sink-port output-earpiece",
       "set-source-port input-voice_call", "set-sink-mute 0",
       "set-sink-volume 80%", "set-source-mute 0", "set-source-volume 100%" >>

TeardownCmds ==
    << "set-card-profile default", "set-sink-port output-speaker",
       "set-source-port input-builtin_mic" >>

SpeakerOnCmds ==
    << "set-source-mute 0", "set-sink-port output-speaker",
       "set-source-port input-builtin_mic" >>

SpeakerOffCmds ==
    << "set-sink-port output-earpiece", "set-source-port input-voice_call" >>

MuteOnCmd == << "set-source-mute 1" >>

MuteOffCmd == << "set-source-mute 0" >>

\* how run_pactl can end: exit status 0, a non-zero status or no audio user
\* (False), or an exception of subprocess.run or os.listdir
PactlOutcomes == {"ok", "fail", "raise"}

MaxPactl == Len(SetupCmds)

\* the route commanded once the sub-command c has been handed to run_pactl
ApplyPactl(r, c) ==
    CASE c = "set-card-profile voicecall" -> [r EXCEPT !.profile = "voicecall"]
      [] c = "set-card-profile default" -> [r EXCEPT !.profile = "default"]
      [] c = "set-sink-port output-earpiece" -> [r EXCEPT !.outputPort = "earpiece"]
      [] c = "set-sink-port output-speaker" -> [r EXCEPT !.outputPort = "speaker"]
      [] c = "set-source-port input-voice_call" -> [r EXCEPT !.inputPort = "voice-call-mic"]
      [] c = "set-source-port input-builtin_mic" -> [r EXCEPT !.inputPort = "builtin-mic"]
      [] c = "set-source-mute 1" -> [r EXCEPT !.micMuted = TRUE]
      [] c = "set-source-mute 0" -> [r EXCEPT !.micMuted = FALSE]
      [] OTHER -> r

\* run_pactl on cmds[i], cmds[i+1], ... inside one try block: an exception ends it
RECURSIVE RunPactl(_, _, _, _)
RunPactl(r, cmds, oc, i) ==
    IF i > Len(cmds) THEN [route |-> r, log |-> << >>]
    ELSE IF oc[i] = "raise"
    THEN [route |-> ApplyPactl(r, cmds[i]),
          log |-> << Op("pactl", cmds[i], oc[i]) >>]
    ELSE LET rest == RunPactl(ApplyPactl(r, cmds[i]), cmds, oc, i + 1) IN
         [route |-> rest.route,
          log |-> << Op("pactl", cmds[i], oc[i]) >> \o rest.log]

setup_call_audio(r, oc) == RunPactl(r, SetupCmds, oc, 1)

teardown_call_audio(r, oc) == RunPactl(r, TeardownCmds, oc, 1)

set_speaker_mode(r, enabled, oc) ==
    RunPactl(r, IF enabled THEN SpeakerOnCmds ELSE SpeakerOffCmds, oc, 1)

set_mute_keep_speaker(r, enabled, oc) ==
    RunPactl(r, IF enabled THEN MuteOnCmd ELSE MuteOffCmd, oc, 1)

\* set_mute(True): set_speaker_mode(False), which never raises, then the mute;
\* the mute is the run_pactl after those of set_speaker_mode
set_mute(r, enabled, oc) ==
    IF enabled
    THEN LET s == set_speaker_mode(r, FALSE, oc)
             m == RunPactl(s.route, MuteOnCmd, << oc[Len(s.log) + 1] >>, 1)
         IN  [route |-> m.route, log |-> s.log \o m.log]
    ELSE RunPactl(r, MuteOffCmd, oc, 1)

----------------------------------------------------------------------------
(* Call History Store *)

NoHistory == [kind |-> "absent", entries |-> << >>]

HistoryEntry(number, direction, duration, ts) ==
    [number |-> number, direction |-> direction, duration |-> duration,
     timestamp |-> ts]

Take(s, n) == SubSeq(s, 1, Min(n, Len(s)))

\* json.load of the file: its list; [] when the file is missing, cannot be read
\* or cannot be parsed; a file that holds a JSON string is returned as it is
load_history(f, ok) ==
    IF f.kind = "list" /\ ok THEN [isList |-> TRUE, value |-> f.entries]
    ELSE IF f.kind = "string" /\ ok THEN [isList |-> FALSE, value |-> << >>]
    ELSE [isList |-> TRUE, value |-> << >>]

SaveOutcomes == {"ok", "openfail", "writefail"}

save_history_uncapped(f, history, outcome) ==
    IF outcome = "ok" THEN [kind |-> "list", entries |-> history]
    ELSE IF outcome = "openfail" THEN f
    ELSE [kind |-> "corrupt", entries |-> << >>]

\* open(HISTORY_FILE, 'w') truncates; "openfail": open raised, the file is as it
\* was; "writefail": the dump raised after the truncation
save_history(f, history, outcome) ==
    IF outcome = "ok" THEN [kind |-> "list", entries |-> Take(history, HistoryCap)]
    ELSE IF outcome = "openfail" THEN f
    ELSE [kind |-> "corrupt", entries |-> << >>]

\* history.insert(0, entry) raises on a history that is no list: nothing is saved
add_to_history(f, e, loadOk, saveOutcome) ==
    LET l == load_history(f, loadOk) IN
    IF ~l.isList
    THEN [file |-> f, raised |-> TRUE,
          log |-> << Op("load_history", "", "string") >>]
    ELSE [file |-> save_history(f, << e >> \o l.value, saveOutcome),
          raised |-> FALSE,
          log |-> << Op("load_history", "", SetRes(loadOk)),
                     Op("save_history", "", saveOutcome) >>]

----------------------------------------------------------------------------
(* The modem service, as OfonoManager uses it *)

EndStates == {"active", "alerting", "dialing", "incoming"}

\* the State property of a call as the modem reports it; "unknown" is what
\* get_status puts for a call without one
ReportedStates == EndStates \cup {"held", "unknown"}

IdleModem(id) == [state |-> "idle", number |-> "", id |-> id]

get_calls_unguarded(conn, m, ok) ==
    IF ok /\ m.state # "idle" THEN << m >> ELSE << >>

get_calls(conn, m, ok) ==
    IF conn /\ ok /\ m.state # "idle" THEN << m >> ELSE << >>

get_status_blind(conn, m, path, ok) ==
    [state |-> "idle", number |-> "", path |-> path]

\* the first call reported, whose path becomes active_call_path
get_status(conn, m, path, ok) ==
    LET calls == get_calls(conn, m, ok) IN
    IF calls = << >>
    THEN [state |-> "idle", number |-> "", path |-> path]
    ELSE [state |-> calls[1].state, number |-> calls[1].number,
          path |-> calls[1].id]

ofono_dial(conn, m, path, number, ok) ==
    IF ~conn
    THEN [modem |-> m, path |-> path, ok |-> FALSE, log |-> << >>]
    ELSE IF ok /\ m.state = "idle"
    THEN [modem |-> [state |-> "dialing", number |-> number, id |-> m.id + 1],
          path |-> m.id + 1, ok |-> TRUE,
          log |-> << Op("Dial", number, "ok") >>]
    ELSE [modem |-> m, path |-> path, ok |-> FALSE,
          log |-> << Op("Dial", number, "failed") >>]

ofono_hangup(conn, m, path, ok) ==
    IF ~conn
    THEN [modem |-> m, path |-> path, log |-> << >>]
    ELSE IF ok
    THEN [modem |-> IdleModem(m.id), path |-> NoCall,
          log |-> << Op("HangupAll", "", "ok") >>]
    ELSE [modem |-> m, path |-> path,
          log |-> << Op("HangupAll", "", "failed") >>]

\* Answer goes to active_call_path, which get_status sets and a call's end does
\* not clear; without one the incoming call is looked up
ofono_answer(conn, m, path, callsOk, ok) ==
    LET calls == get_calls(conn, m, callsOk)
        found == IF path # NoCall THEN path
                 ELSE IF calls # << >> /\ calls[1].state = "incoming"
                 THEN calls[1].id ELSE NoCall
    IN  IF found = NoCall
        THEN [modem |-> m, path |-> path, log |-> << >>]
        ELSE IF conn /\ ok /\ found = m.id /\ m.state = "incoming"
        THEN [modem |-> [m EXCEPT !.state = "active"], path |-> found,
              log |-> << Op("Answer", "", "ok") >>]
        ELSE [modem |-> m, path |-> found,
              log |-> << Op("Answer", "", "failed") >>]

----------------------------------------------------------------------------
(* The Command Mailbox *)

Command(action, number, enabled) ==
    [action |-> action, number |-> number, enabled |-> enabled, json |-> TRUE]

\* what the UI writes; the last one is a file json.load cannot parse
Commands ==
    {Command("dial", n, FALSE) : n \in Numbers \cup {""}}
    \cup {Command("hangup", "", FALSE), Command("answer", "", FALSE)}
    \cup {Command(a, "", b) : a \in {"speaker", "mute"}, b \in BOOLEAN}
    \cup {[action |-> "", number |-> "", enabled |-> FALSE, json |-> FALSE]}

\* the file as submission number sid leaves it
Submitted(c, sid) ==
    << [sid |-> sid, action |-> c.action, number |-> c.number,
        enabled |-> c.enabled, json |-> c.json] >>

remove_keeps_file(f) == f

\* os.remove(CMD_FILE)
remove_cmd_file(f) == << >>

----------------------------------------------------------------------------
(* daemon_mode, statement by statement *)

NoChange(tech, m, path, r) ==
    [tech |-> tech, slept |-> 0, modem |-> m, path |-> path, route |-> r,
     number |-> "", started |-> FALSE, log |-> << >>]

dial_before_switch(tech, conn, m, path, r, c, o) ==
    LET d == ofono_dial(conn, m, path, c.number, o.relay)
        sw == switch_to_2g_for_call(tech, o.rget, o.rset)
    IN  [tech |-> sw.tech, slept |-> sw.slept, modem |-> d.modem,
         path |-> d.path, route |-> r, number |-> c.number, started |-> TRUE,
         log |-> << Op("ofono.dial", c.number, "") >> \o d.log \o sw.log]

\* action == "dial" with a number: the radio step, then the dial request
dial_command(tech, conn, m, path, r, c, o) ==
    LET sw == switch_to_2g_for_call(tech, o.rget, o.rset)
        d == ofono_dial(conn, m, path, c.number, o.relay)
    IN  [tech |-> sw.tech, slept |-> sw.slept, modem |-> d.modem,
         path |-> d.path, route |-> r, number |-> c.number, started |-> TRUE,
         log |-> sw.log \o << Op("ofono.dial", c.number, "") >> \o d.log]

run_command_restarts(tech, conn, m, path, r, c, o) ==
    IF c.action = "dial" /\ c.number # ""
    THEN dial_command(tech, conn, m, path, r, c, o)
    ELSE IF c.action = "hangup"
    THEN LET h == ofono_hangup(conn, m, path, o.relay) IN
         [NoChange(tech, m, path, r) EXCEPT
             !.modem = h.modem, !.path = h.path, !.started = TRUE,
             !.log = << Op("ofono.hangup", "", "") >> \o h.log]
    ELSE IF c.action = "answer"
    THEN LET a == ofono_answer(conn, m, path, o.calls, o.relay) IN
         [NoChange(tech, m, path, r) EXCEPT
             !.modem = a.modem, !.path = a.path, !.started = TRUE,
             !.log = << Op("ofono.answer", "", "") >> \o a.log]
    ELSE IF c.action = "speaker"
    THEN LET a == set_speaker_mode(r, c.enabled, o.pactl) IN
         [NoChange(tech, m, path, r) EXCEPT !.route = a.route, !.log = a.log]
    ELSE IF c.action = "mute"
    THEN LET a == set_mute(r, c.enabled, o.pactl) IN
         [NoChange(tech, m, path, r) EXCEPT !.route = a.route, !.log = a.log]
    ELSE NoChange(tech, m, path, r)

\* the branch of the command's action: what it leaves of the radio technology,
\* the modem, active_call_path and the route, the time it slept, the number it
\* puts in call_number ("": none) and whether it sets call_start
run_command(tech, conn, m, path, r, c, o) ==
    IF c.action = "dial" /\ c.number # ""
    THEN dial_command(tech, conn, m, path, r, c, o)
    ELSE IF c.action = "hangup"
    THEN LET h == ofono_hangup(conn, m, path, o.relay) IN
         [NoChange(tech, m, path, r) EXCEPT
             !.modem = h.modem, !.path = h.path,
             !.log = << Op("ofono.hangup", "", "") >> \o h.log]
    ELSE IF c.action = "answer"
    THEN LET a == ofono_answer(conn, m, path, o.calls, o.relay) IN
         [NoChange(tech, m, path, r) EXCEPT
             !.modem = a.modem, !.path = a.path, !.started = TRUE,
             !.log = << Op("ofono.answer", "", "") >> \o a.log]
    ELSE IF c.action = "speaker"
    THEN LET a == set_speaker_mode(r, c.enabled, o.pactl) IN
         [NoChange(tech, m, path, r) EXCEPT !.route = a.route, !.log = a.log]
    ELSE IF c.action = "mute"
    THEN LET a == set_mute(r, c.enabled, o.pactl) IN
         [NoChange(tech, m, path, r) EXCEPT !.route = a.route, !.log = a.log]
    ELSE NoChange(tech, m, path, r)

became_active_any(cur, last) == cur = "active"

\* current_state == "active" and last_state != "active"
became_active(cur, last) == cur = "active" /\ last # "active"

\* last_state in ["active", "alerting", "dialing", "incoming"] and
\* current_state == "idle"
call_ended(cur, last) == last \in EndStates /\ cur = "idle"

call_incoming_any(cur, last) == cur = "incoming"

\* current_state == "incoming" and last_state == "idle"
call_incoming(cur, last) == cur = "incoming" /\ last = "idle"

\* int(time.time() - call_start) if call_start else 0
Duration(start, t) == IF start # NoStart THEN t - start ELSE 0

direction_by_ringing(last) ==
    IF last \in {"dialing", "alerting"} THEN "outgoing" ELSE "incoming"

\* "outgoing" if last_state == "dialing" else "incoming"
Direction(last) == IF last = "dialing" THEN "outgoing" ELSE "incoming"

write_status(f, status, ok) == IF ok THEN << status >> ELSE f

----------------------------------------------------------------------------
(* The state after construction *)

NoEntry == HistoryEntry("", "", 0, 0)

ObsInit ==
    [by |-> "init",             \* the operation of the latest step
     prevBy |-> "init",         \* the operation of the step before it
     prevTrace |-> << >>,       \* the log of the step before it
     entry |-> NoEntry,         \* the entry handed to add_to_history
     routeBefore |-> DefaultRoute,
     handleBefore |-> NoProc,
     runningBefore |-> FALSE,   \* the process of handleBefore was alive
     techBefore |-> "lte",
     faults |-> 0,              \* operations with a failing external call so far
     polled |-> "idle",         \* the state the latest poll reported
     prevNonIdle |-> "idle",    \* the latest non-idle state a poll reported
     activeAt |-> 0,            \* when the running session was first polled Active
     ended |-> FALSE,           \* the latest step polled Idle after a non-idle poll
     endPrev |-> "idle",        \* prevNonIdle and activeAt as that poll found them
     endActiveAt |-> 0,
     added |-> FALSE,           \* the latest step was a poll that called add_to_history
     cliAdded |-> FALSE,        \* the latest step was main calling add_to_history
     cliSaved |-> FALSE,        \* the latest step was main calling save_history
     submits |-> 0,             \* submissions written to the mailbox so far
     acted |-> << >>,           \* the submissions the daemon acted on, in order
     takes |-> 0,               \* commands taken in the running loop iteration
     dialled |-> NoCall,        \* the call of the latest accepted dial request
     writing |-> << >>]         \* what a writer that has opened the mailbox will write

InitCtl ==
    /\ pc = "top"
    /\ cmd = << >>
    /\ last_state = "idle"
    /\ call_start = NoStart
    /\ call_number = ""

InitOfono ==
    /\ active_call_path = NoCall
    /\ modem = [state |-> "idle", number |-> "", id |-> 0]

InitFiles ==
    /\ cmdFile = << >>
    /\ historyFile = NoHistory
    /\ statusFile = << >>

InitRing ==
    /\ ringtone_process = NoProc
    /\ procs = {}
    /\ spawned = 0

InitObs ==
    /\ now = 1
    /\ trace = << >>
    /\ obs = ObsInit

\* obs after a step of operation b
Seen(b) ==
    [obs EXCEPT !.by = b, !.prevBy = obs.by, !.ended = FALSE, !.added = FALSE,
                !.cliAdded = FALSE, !.cliSaved = FALSE]

----------------------------------------------------------------------------
(* The Radio Technology Controller on its own: forceVoiceCompatible and        *)
(* restorePreferred called in any order, and the technology changed by others *)

InitRadio ==
    /\ InitCtl /\ InitOfono /\ InitFiles /\ InitRing /\ InitObs
    /\ connected = TRUE
    /\ route = DefaultRoute
    /\ radioTech \in RadioTechs

RadioForce ==
    \E getOk \in BOOLEAN, setOk \in BOOLEAN :
        LET r == switch_to_2g_for_call(radioTech, getOk, setOk) IN
        /\ now + r.slept <= MaxRadioTime
        /\ radioTech' = r.tech
        /\ now' = now + r.slept
        /\ trace' = r.log
        /\ obs' = [Seen("force") EXCEPT !.techBefore = radioTech,
                                           !.prevTrace = trace]
        /\ UNCHANGED <<ctlVars, ofonoVars, ringVars, modem, cmdFile,
                       historyFile, statusFile, route>>

RadioRestore ==
    \E getOk \in BOOLEAN, setOk \in BOOLEAN :
        LET r == restore_lte_after_call(radioTech, getOk, setOk) IN
        /\ radioTech' = r.tech
        /\ trace' = r.log
        /\ obs' = [Seen("restore") EXCEPT !.techBefore = radioTech,
                                             !.prevTrace = trace]
        /\ UNCHANGED <<ctlVars, ofonoVars, ringVars, modem, cmdFile,
                       historyFile, statusFile, route, now>>

\* the user, or the settings application, picks another technology
RadioOther ==
    \E t \in RadioTechs \ {radioTech} :
        /\ radioTech' = t
        /\ trace' = << >>
        /\ obs' = [Seen("other") EXCEPT !.techBefore = radioTech,
                                           !.prevTrace = trace]
        /\ UNCHANGED <<ctlVars, ofonoVars, ringVars, modem, cmdFile,
                       historyFile, statusFile, route, now>>

NextRadio == RadioForce \/ RadioRestore \/ RadioOther

SpecRadio == InitRadio /\ [][NextRadio]_vars

----------------------------------------------------------------------------
(* The Feedback Controller on its own: the ringtone started and stopped in    *)
(* any order, the playback process ending by itself when the file is played  *)

InitFeedback ==
    /\ InitCtl /\ InitOfono /\ InitFiles /\ InitRing /\ InitObs
    /\ connected = TRUE
    /\ route = DefaultRoute
    /\ radioTech = "lte"

RingPlay ==
    \E outcome \in PlayOutcomes :
        LET r == play_ringtone(ringtone_process, procs, spawned, outcome) IN
        /\ r.spawned <= MaxRings
        /\ ringtone_process' = r.handle
        /\ procs' = r.procs
        /\ spawned' = r.spawned
        /\ trace' = r.log
        /\ obs' = [Seen("play") EXCEPT !.handleBefore = ringtone_process,
                                          !.runningBefore = ringtone_process \in procs,
                                          !.prevTrace = trace]
        /\ UNCHANGED <<ctlVars, ofonoVars, modem, cmdFile, historyFile,
                       statusFile, radioTech, route, now>>

RingStop ==
    \E termOk \in BOOLEAN :
        LET r == stop_ringtone(ringtone_process, procs, termOk) IN
        /\ ringtone_process' = r.handle
        /\ procs' = r.procs
        /\ trace' = r.log \o (IF r.raised THEN << Op("raise", "stop_ringtone", "") >>
                              ELSE << >>)
        /\ obs' = [Seen("stop") EXCEPT !.handleBefore = ringtone_process,
                                          !.runningBefore = ringtone_process \in procs,
                                          !.prevTrace = trace]
        /\ UNCHANGED <<ctlVars, ofonoVars, modem, cmdFile, historyFile,
                       statusFile, radioTech, route, now, spawned>>

\* paplay reaches the end of the sound file
RingExit ==
    \E p \in procs :
        /\ procs' = procs \ {p}
        /\ trace' = << >>
        /\ obs' = [Seen("exit") EXCEPT !.handleBefore = ringtone_process,
                                          !.runningBefore = ringtone_process \in procs,
                                          !.prevTrace = trace]
        /\ UNCHANGED <<ctlVars, ofonoVars, modem, cmdFile, historyFile,
                       statusFile, radioTech, route, now, ringtone_process,
                       spawned>>

NextFeedback == RingPlay \/ RingStop \/ RingExit

SpecFeedback == InitFeedback /\ [][NextFeedback]_vars

----------------------------------------------------------------------------
(* The daemon's loop stopped from outside: the KeyboardInterrupt handler of    *)
(* daemon_mode breaks out of the loop, daemon_mode and main return             *)

LoopPlay == pc # "exit" /\ RingPlay

LoopStop == pc # "exit" /\ RingStop

\* except KeyboardInterrupt: break
Interrupt ==
    /\ pc # "exit"
    /\ pc' = "exit"
    /\ trace' = << Op("break", "KeyboardInterrupt", "") >>
    /\ obs' = [Seen("interrupt") EXCEPT !.handleBefore = ringtone_process,
                                           !.runningBefore = ringtone_process \in procs,
                                           !.prevTrace = trace]
    /\ UNCHANGED <<cmd, last_state, call_start, call_number, ofonoVars,
                   ringVars, modem, cmdFile, historyFile, statusFile,
                   radioTech, route, now>>

NextShutdown == LoopPlay \/ LoopStop \/ RingExit \/ Interrupt

SpecShutdown == InitFeedback /\ [][NextShutdown]_vars

----------------------------------------------------------------------------
(* The Command Mailbox on its own, with the steps of its writer and of the     *)
(* loop's take apart: open(CMD_FILE, 'w') and json.dump on one side,           *)
(* json.load and os.remove on the other. The branch of the command and the     *)
(* poll that follow the take are those of Drain and Poll.                      *)

InitMailbox ==
    /\ InitCtl /\ InitOfono /\ InitFiles /\ InitRing /\ InitObs
    /\ connected = TRUE
    /\ route = DefaultRoute
    /\ radioTech = "lte"

MailboxVars ==
    <<last_state, call_start, call_number, ofonoVars, ringVars, modem,
      historyFile, statusFile, radioTech, route, now>>

\* open(CMD_FILE, 'w'): the file is there and empty
WriterOpen ==
    \E c \in {k \in Commands : k.json} :
        /\ obs.submits < MaxWrites
        /\ obs.writing = << >>
        /\ cmdFile' = << [Submitted(c, obs.submits + 1)[1] EXCEPT
                             !.action = "", !.number = "", !.enabled = FALSE,
                             !.json = FALSE] >>
        /\ trace' = << Op("open", "cmd", "w") >>
        /\ obs' = [Seen("open") EXCEPT !.submits = obs.submits + 1,
                                          !.writing = Submitted(c, obs.submits + 1)]
        /\ UNCHANGED <<pc, cmd, MailboxVars>>

\* json.dump and close: the text goes into the file that was opened, which is
\* not in the directory any more if os.remove has run since
WriterDump ==
    /\ obs.writing # << >>
    /\ cmdFile' = IF cmdFile # << >> THEN obs.writing ELSE cmdFile
    /\ trace' = << Op("json.dump", "cmd", "ok") >>
    /\ obs' = [Seen("dump") EXCEPT !.writing = << >>]
    /\ UNCHANGED <<pc, cmd, MailboxVars>>

\* os.path.exists, open and json.load; a file that does not parse is left
TakeRead ==
    /\ pc = "top"
    /\ cmdFile # << >>
    /\ IF cmdFile[1].json
       THEN /\ cmd' = cmdFile
            /\ pc' = "remove"
            /\ trace' = << Op("json.load", "cmd", "ok") >>
            /\ obs' = Seen("read")
       ELSE /\ UNCHANGED <<cmd, pc>>
            /\ trace' = << Op("json.load", "cmd", "raised") >>
            /\ obs' = Seen("badcmd")
    /\ UNCHANGED <<cmdFile, MailboxVars>>

\* os.remove(CMD_FILE), and the command read is acted on
TakeRemove ==
    /\ pc = "remove"
    /\ cmdFile' = remove_cmd_file(cmdFile)
    /\ pc' = "top"
    /\ trace' = << Op("os.remove", "cmd", "ok") >>
    /\ obs' = [Seen("remove") EXCEPT !.acted = Append(obs.acted, cmd[1].sid)]
    /\ UNCHANGED <<cmd, MailboxVars>>

NextMailbox == WriterOpen \/ WriterDump \/ TakeRead \/ TakeRemove

SpecMailbox == InitMailbox /\ [][NextMailbox]_vars

----------------------------------------------------------------------------
(* The Audio Route Controller on its own: the four operations in any order,   *)
(* from any route, each run_pactl ending in any way                           *)

\* the outcomes of the run_pactl calls of one operation: at most
\* MaxPactlFailures of them are not "ok"
PactlOracles ==
    {oc \in [1..MaxPactl -> PactlOutcomes] :
        Cardinality({i \in 1..MaxPactl : oc[i] # "ok"}) <= MaxPactlFailures}

InitAudio ==
    /\ InitCtl /\ InitOfono /\ InitFiles /\ InitRing /\ InitObs
    /\ connected = TRUE
    /\ radioTech = "lte"
    /\ route \in Routes

AudioStep(b, r) ==
    /\ route' = r.route
    /\ trace' = r.log
    /\ obs' = [Seen(b) EXCEPT !.routeBefore = route]
    /\ UNCHANGED <<ctlVars, ofonoVars, ringVars, modem, cmdFile, historyFile,
                   statusFile, radioTech, now>>

AudioSetup == \E oc \in PactlOracles : AudioStep("setup", setup_call_audio(route, oc))

AudioTeardown ==
    \E oc \in PactlOracles : AudioStep("teardown", teardown_call_audio(route, oc))

AudioSpeaker ==
    \E oc \in PactlOracles, enabled \in BOOLEAN :
        AudioStep(IF enabled THEN "speaker_on" ELSE "speaker_off",
                  set_speaker_mode(route, enabled, oc))

AudioMute ==
    \E oc \in PactlOracles, enabled \in BOOLEAN :
        AudioStep(IF enabled THEN "mute_on" ELSE "mute_off",
                  set_mute(route, enabled, oc))

NextAudio == AudioSetup \/ AudioTeardown \/ AudioSpeaker \/ AudioMute

SpecAudio == InitAudio /\ [][NextAudio]_vars

----------------------------------------------------------------------------
(* The Call History Store on its own: one append after the other, each read   *)
(* and each write of the file ending in any way                               *)

InitHistory ==
    /\ InitCtl /\ InitOfono /\ InitFiles /\ InitRing /\ InitObs
    /\ connected = TRUE
    /\ radioTech = "lte"
    /\ route = DefaultRoute

\* add_to_history(number, "outgoing", 0), as main's dial calls it; one read or
\* one write of the file fails in a run, at any append
HistoryAppend ==
    \E loadOk \in BOOLEAN, saveOutcome \in SaveOutcomes :
        LET e == HistoryEntry("n1", "outgoing", 0, now)
            r == add_to_history(historyFile, e, loadOk, saveOutcome)
            fault == ~loadOk \/ saveOutcome # "ok"
        IN  /\ now < MaxAppends
            /\ fault => obs.faults < MaxFaults /\ (loadOk \/ saveOutcome = "ok")
            /\ historyFile' = r.file
            /\ now' = now + 1
            /\ trace' = r.log
            /\ obs' = [Seen("append") EXCEPT !.entry = e,
                                              !.faults = IF fault THEN @ + 1 ELSE @]
            /\ UNCHANGED <<ctlVars, ofonoVars, ringVars, modem, cmdFile,
                           statusFile, radioTech, route>>

\* load_history(), as main's history command calls it
HistoryLoad ==
    \E loadOk \in BOOLEAN :
        /\ trace' = << Op("load_history", "", SetRes(loadOk)) >>
        /\ obs' = Seen("load")
        /\ UNCHANGED <<ctlVars, ofonoVars, ringVars, modem, cmdFile, historyFile,
                       statusFile, radioTech, route, now>>

NextHistory == HistoryAppend \/ HistoryLoad

SpecHistory == InitHistory /\ [][NextHistory]_vars

----------------------------------------------------------------------------
(* The controller: the daemon loop, the UI and main's dial writing the        *)
(* mailbox, and the modem's calls coming, changing and going between the      *)
(* moments the daemon talks to the modem                                      *)

AllOk == [i \in 1..MaxPactl |-> "ok"]

\* how the external calls of one daemon step end: all well, or one of them
\* not; a run has at most MaxFaults steps of the second kind
OkOracle ==
    [calls |-> TRUE, rget |-> TRUE, rset |-> TRUE, relay |-> TRUE,
     term |-> TRUE, pactl |-> AllOk, load |-> TRUE, save |-> "ok",
     haptic |-> TRUE, play |-> "spawn", status |-> TRUE]

Oracles ==
    {OkOracle,
     [OkOracle EXCEPT !.pactl = [AllOk EXCEPT ![1] = "raise"]],
     [OkOracle EXCEPT !.save = "openfail"], [OkOracle EXCEPT !.play = "nofile"],
     [OkOracle EXCEPT !.calls = FALSE], [OkOracle EXCEPT !.rget = FALSE],
     [OkOracle EXCEPT !.rset = FALSE], [OkOracle EXCEPT !.relay = FALSE],
     [OkOracle EXCEPT !.term = FALSE], [OkOracle EXCEPT !.load = FALSE]}

Init ==
    /\ InitCtl /\ InitOfono /\ InitFiles /\ InitRing /\ InitObs
    /\ connected \in BOOLEAN
    /\ route = DefaultRoute
    /\ radioTech \in RadioTechs

\* the UI writes a command, over whatever the file holds
Submit ==
    \E c \in Commands :
        /\ obs.submits < MaxSubmits
        /\ cmdFile' = Submitted(c, obs.submits + 1)
        /\ obs' = [obs EXCEPT !.submits = obs.submits + 1, !.cliAdded = FALSE,
                               !.cliSaved = FALSE]
        /\ UNCHANGED <<ctlVars, ofonoVars, ringVars, modem, historyFile,
                       statusFile, radioTech, route, now, trace>>

\* main's dial: the command for the daemon, a dial request of its own and, when
\* that one is accepted, an entry in the history
CliDial ==
    \E n \in Numbers, ok \in BOOLEAN, loadOk \in BOOLEAN, saveOutcome \in SaveOutcomes :
        LET d == ofono_dial(connected, modem, NoCall, n, ok)
            h == add_to_history(historyFile, HistoryEntry(n, "outgoing", 0, now),
                                loadOk, saveOutcome)
            fault == ~ok \/ ~loadOk \/ saveOutcome # "ok"
        IN  /\ obs.submits < MaxSubmits
            /\ d.modem.id <= MaxCalls
            /\ fault => obs.faults < MaxFaults
            /\ loadOk \/ saveOutcome = "ok"
            /\ ~ok => loadOk /\ saveOutcome = "ok"
            /\ cmdFile' = Submitted(Command("dial", n, FALSE), obs.submits + 1)
            /\ modem' = d.modem
            /\ historyFile' = IF d.ok THEN h.file ELSE historyFile
            /\ obs' = [obs EXCEPT !.submits = obs.submits + 1, !.cliAdded = d.ok,
                                   !.cliSaved = FALSE,
                                   !.faults = IF fault THEN @ + 1 ELSE @,
                                   !.dialled = IF d.ok THEN d.modem.id ELSE @]
            /\ UNCHANGED <<ctlVars, ofonoVars, ringVars, statusFile, radioTech,
                           route, now, trace>>

\* the values main's save_history is given to write: a list, or the JSON text
\* of a string or of an object
SavedValues ==
    {[kind |-> "list", entries |-> << >>],
     [kind |-> "string", entries |-> << >>],
     [kind |-> "object", entries |-> << >>]}

\* main's save_history: json.loads of the argument and save_history of the
\* value; a string is sliced and dumped as a string, an object cannot be
\* sliced and the dump raises after the file was truncated
CliSaveHistory ==
    \E v \in SavedValues, outcome \in SaveOutcomes :
        LET written ==
                IF v.kind = "string" /\ outcome = "ok"
                THEN [kind |-> "string", entries |-> << >>]
                ELSE IF v.kind = "object" /\ outcome = "ok"
                THEN save_history(historyFile, << >>, "writefail")
                ELSE save_history(historyFile, v.entries, outcome)
        IN  /\ obs.submits < MaxSubmits
            /\ outcome # "ok" => obs.faults < MaxFaults
            /\ historyFile' = written
            /\ obs' = [obs EXCEPT !.submits = obs.submits + 1,
                                   !.cliAdded = FALSE,
                                   !.cliSaved = TRUE,
                                   !.faults = IF outcome # "ok" THEN @ + 1 ELSE @]
            /\ UNCHANGED <<ctlVars, ofonoVars, ringVars, modem, cmdFile,
                           statusFile, radioTech, route, now, trace>>

\* the states a call can be found in later on, given the one it is in: a call
\* being set up ("dialing", then "alerting", or "incoming") does not go back,
\* and a connected call does not go back to being set up
CallAfter(st) ==
    (ReportedStates \ {st}) \
        (IF st = "dialing" THEN {"incoming"}
         ELSE {"incoming", "dialing", "alerting"})

\* what the modem's call list can have become when the daemon's loop comes
\* round again: the same, somebody calling, or the call gone on or gone
ModemAfter(m) ==
    {m} \cup
    (IF m.state = "idle"
     THEN {[state |-> "incoming", number |-> n, id |-> m.id + 1] :
              n \in (IF m.id < MaxCalls THEN Numbers ELSE {})}
     ELSE {[m EXCEPT !.state = st] : st \in CallAfter(m.state)}
          \cup {IdleModem(m.id)})

\* the mailbox holds a file: json.load, os.remove and the branch of the
\* command's action; a file that does not parse is left where it is (the
\* handler of the inner try prints the error)
Drain ==
    /\ pc = "top"
    /\ cmdFile # << >>
    /\ \E o \in Oracles, m \in ModemAfter(modem) :
        LET c == cmdFile[1]
            r == IF c.json
                 THEN run_command(radioTech, connected, m, active_call_path,
                                  route, c, o)
                 ELSE NoChange(radioTech, m, active_call_path, route)
            faults == IF o = OkOracle THEN obs.faults ELSE obs.faults + 1
        IN  /\ faults <= MaxFaults
            /\ now + r.slept <= MaxTime
            /\ r.modem.id <= MaxCalls
            /\ cmd' = IF c.json THEN cmdFile ELSE cmd
            /\ cmdFile' = IF c.json THEN remove_cmd_file(cmdFile) ELSE cmdFile
            /\ radioTech' = r.tech
            /\ modem' = r.modem
            /\ active_call_path' = r.path
            /\ route' = r.route
            /\ now' = now + r.slept
            /\ call_number' = IF r.number # "" THEN r.number ELSE call_number
            /\ call_start' = IF r.started THEN now + r.slept ELSE call_start
            /\ trace' = IF c.json
                        THEN << Op("json.load", "cmd", "ok"),
                                Op("os.remove", "cmd", "ok") >> \o r.log
                        ELSE << Op("json.load", "cmd", "raised") >>
            /\ obs' = IF c.json
                      THEN [Seen("cmd") EXCEPT !.acted = Append(obs.acted, c.sid),
                                                !.takes = obs.takes + 1,
                                                !.faults = faults,
                                                !.techBefore = radioTech,
                                                !.dialled =
                                                    IF r.modem.id # m.id
                                                    THEN r.modem.id ELSE @]
                      ELSE [Seen("badcmd") EXCEPT !.faults = faults]
            /\ pc' = "poll"
            /\ UNCHANGED <<last_state, connected, ringVars, historyFile,
                           statusFile>>

\* the rest of the iteration, after the command or with no file in the mailbox:
\* get_status, the three transitions, write_status, last_state and the sleep;
\* an exception of add_to_history ends the iteration in the outer handler
Poll ==
    /\ pc = "poll" \/ (pc = "top" /\ cmdFile = << >>)
    /\ \E o \in Oracles,
          m \in (IF pc = "poll" THEN {modem} ELSE ModemAfter(modem)) :
        LET st == get_status(connected, m, active_call_path, o.calls)
            cur == st.state
            becameActive == became_active(cur, last_state)
            callEnd == call_ended(cur, last_state)
            incoming == call_incoming(cur, last_state)
            e == HistoryEntry(call_number, Direction(last_state),
                              Duration(call_start, now), now)
            h == add_to_history(historyFile, e, o.load, o.save)
            raised == callEnd /\ h.raised
            ended == callEnd /\ ~h.raised
            sr == IF becameActive \/ ended
                  THEN stop_ringtone(ringtone_process, procs, o.term)
                  ELSE [handle |-> ringtone_process, procs |-> procs,
                        raised |-> FALSE, log |-> << >>]
            au == IF becameActive THEN setup_call_audio(route, o.pactl)
                  ELSE IF ended THEN teardown_call_audio(route, o.pactl)
                  ELSE [route |-> route, log |-> << >>]
            rs == IF ended THEN restore_lte_after_call(radioTech, o.rget, o.rset)
                  ELSE [tech |-> radioTech, log |-> << >>]
            sw == IF incoming THEN switch_to_2g_for_call(radioTech, o.rget, o.rset)
                  ELSE [tech |-> rs.tech, slept |-> 0, log |-> << >>]
            pl == IF incoming
                  THEN play_ringtone(ringtone_process, procs, spawned, o.play)
                  ELSE [handle |-> sr.handle, procs |-> sr.procs,
                        spawned |-> spawned, log |-> << >>]
            start == IF ended THEN NoStart ELSE call_start
            t == now + sw.slept
            status == [state |-> cur, number |-> st.number,
                       duration |-> Duration(start, t)]
            seen == [Seen("poll") EXCEPT
                        !.polled = cur,
                        !.prevNonIdle = IF cur # "idle" THEN cur ELSE @,
                        !.activeAt = IF cur = "idle" THEN 0
                                     ELSE IF cur = "active" /\ @ = 0 THEN now
                                     ELSE @,
                        !.ended = obs.polled # "idle" /\ cur = "idle",
                        !.endPrev = obs.prevNonIdle,
                        !.endActiveAt = obs.activeAt,
                        !.added = callEnd,
                        !.entry = IF callEnd THEN e ELSE NoEntry,
                        !.takes = 0,
                        !.faults = IF o = OkOracle THEN @ ELSE @ + 1]
        IN  /\ seen.faults <= MaxFaults
            /\ modem' = m
            /\ active_call_path' = st.path
            /\ obs' = seen
            /\ IF raised
               THEN /\ now + ErrorSleep <= MaxTime
                    /\ now' = now + ErrorSleep
                    /\ trace' = h.log \o << Op("raise", "add_to_history", "") >>
                    /\ UNCHANGED <<last_state, call_start, call_number,
                                   historyFile, statusFile, radioTech,
                                   ringVars, route>>
               ELSE /\ t + PollSleep <= MaxTime
                    /\ pl.spawned <= MaxRings
                    /\ now' = t + PollSleep
                    /\ last_state' = cur
                    /\ call_start' = start
                    /\ call_number' = IF ended THEN ""
                                      ELSE IF incoming THEN st.number
                                      ELSE call_number
                    /\ historyFile' = IF ended THEN h.file ELSE historyFile
                    /\ ringtone_process' = pl.handle
                    /\ procs' = pl.procs
                    /\ spawned' = pl.spawned
                    /\ route' = au.route
                    /\ radioTech' = sw.tech
                    /\ statusFile' = write_status(statusFile, status, o.status)
                    /\ trace' = (IF ended THEN h.log ELSE << >>) \o sr.log
                                \o au.log \o rs.log
                                \o (IF incoming THEN trigger_haptic(o.haptic)
                                    ELSE << >>)
                                \o sw.log \o pl.log
                                \o << Op("write_status", cur, SetRes(o.status)) >>
            /\ pc' = "top"
            /\ UNCHANGED <<cmd, connected, cmdFile>>

Next ==
    \/ Submit \/ CliDial \/ CliSaveHistory
    \/ Drain \/ Poll

Spec == Init /\ [][Next]_vars

----------------------------------------------------------------------------
(* Claims about the controller *)

\* C1: the entry appended when a poll finds the call gone has direction
\* "outgoing" if and only if the state polled just before, the latest non-idle
\* one, was "dialing"; in every other case it has direction "incoming"
C1_DirectionByPrecedingState ==
    obs.added =>
        /\ obs.entry.direction \in {"outgoing", "incoming"}
        /\ obs.entry.direction = "outgoing" <=> obs.endPrev = "dialing"

\* a call polled "dialing" and then gone leaves an outgoing entry
C1_Witness ==
    /\ obs.by = "poll" /\ obs.added
    /\ obs.endPrev = "dialing"
    /\ obs.entry.direction = "outgoing"

\* C2, as the specification states it: the duration of every appended entry is
\* at least 0, and it is 0 whenever no poll of the session reported "active"
C2_AsClaimed ==
    obs.added =>
        /\ obs.entry.duration >= 0
        /\ obs.endActiveAt = 0 => obs.entry.duration = 0

\* the example of the claim: a dial command, "dialing" polled, the call gone,
\* every external call of the run successful, and an entry with a duration
C2_Failing ==
    /\ obs.added /\ obs.faults = 0
    /\ cmd # << >> /\ cmd[1].action = "dial"
    /\ obs.endPrev = "dialing" /\ obs.endActiveAt = 0
    /\ obs.entry.duration > 0

\* C3, as the specification states it: for a session with a poll that reported
\* "active", the duration of the entry is the time from the first such poll to
\* the poll that found the call gone
C3_AsClaimed ==
    obs.added /\ obs.endActiveAt # 0 =>
        obs.entry.duration = obs.entry.timestamp - obs.endActiveAt

\* a call that comes in, is answered on another path than the mailbox and ends
\* later, every external call of the run successful: the entry has duration 0
C3_Failing ==
    /\ obs.added /\ obs.faults = 0 /\ obs.acted = << >>
    /\ obs.endActiveAt # 0
    /\ obs.entry.timestamp - obs.endActiveAt > 0
    /\ obs.entry.duration = 0

\* C4, as the specification states it: an entry is appended at the poll that
\* finds idle after a non-idle poll, at each such poll, and at no other moment
C4_AsClaimed ==
    /\ obs.ended <=> obs.added
    /\ ~obs.cliAdded

\* a call last polled "held" is gone and no entry is appended
C4_Failing ==
    /\ obs.by = "poll" /\ obs.ended /\ ~obs.added
    /\ obs.faults = 0
    /\ obs.endPrev = "held"

\* C6: no submission is acted upon twice, the daemon takes at most one command
\* in one iteration of its loop, and a command it has taken is not in the
\* mailbox any more: the mailbox is empty until somebody writes it again
C6_AtMostOnceDelivery ==
    /\ \A i, j \in DOMAIN obs.acted : obs.acted[i] = obs.acted[j] => i = j
    /\ obs.takes <= 1
    /\ \A i \in DOMAIN obs.acted :
          cmdFile = << >> \/ cmdFile[1].sid # obs.acted[i]

\* a command was taken, and the loop has come round again since
C6_Witness ==
    /\ obs.by = "poll" /\ obs.prevBy = "poll"
    /\ Len(obs.acted) = 1
    /\ cmdFile = << >>

\* C7: for a dial command with a number the radio technology is queried
\* first; if a switch is issued the settle delay follows it; the dial request
\* comes after all of that, once, and carries the number of the command
C7_RadioBeforeDial ==
    obs.by = "cmd" /\ cmd[1].action = "dial" /\ cmd[1].number # "" =>
        LET g == IndexOf(trace, "get_radio_mode", "")
            s == IndexOf(trace, "set_radio_mode", "gsm")
            w == IndexOf(trace, "sleep", "settle")
            d == IndexOf(trace, "ofono.dial", cmd[1].number)
        IN  /\ g >= 1 /\ d > g
            /\ s # 0 => s > g /\ w > s /\ d > w
            /\ Count(trace, "ofono.dial") = 1
            /\ \A i \in 1..Len(trace) :
                  trace[i].op \in {"ofono.dial", "Dial"} =>
                      trace[i].arg = cmd[1].number /\ i >= d

\* a dial command that switched the technology and had its call set up
C7_Witness ==
    /\ obs.by = "cmd" /\ cmd[1].action = "dial" /\ cmd[1].number = "n2"
    /\ Op("set_radio_mode", "gsm", "ok") \in Ops(trace)
    /\ Op("Dial", "n2", "ok") \in Ops(trace)
    /\ modem.state = "dialing" /\ modem.number = "n2"

\* C11, as the specification states it: every iteration of the loop writes one
\* status snapshot, with the state polled in it and the time since call_start
\* (0 when there is none) as its duration
C11_AsClaimed ==
    obs.by = "poll" =>
        /\ Count(trace, "write_status") = 1
        /\ statusFile # << >>
        /\ statusFile[1].state = obs.polled
        /\ statusFile[1].duration = Duration(call_start, now - PollSleep)

\* the history file holds a JSON string, the call is gone, add_to_history
\* raises: the iteration ends without a snapshot and the file still shows the call
C11_Failing ==
    /\ obs.by = "poll" /\ obs.polled = "idle"
    /\ Count(trace, "write_status") = 0
    /\ historyFile.kind = "string"
    /\ statusFile # << >> /\ statusFile[1].state # "idle"

\* the step of the loop that takes a command of the given action
Takes(action) ==
    /\ pc = "top" /\ pc' = "poll"
    /\ cmdFile # << >> /\ cmdFile[1].json
    /\ cmdFile[1].action = action

\* C12, as the specification states it: an answer command taken while no call
\* is incoming (none polled, none at the modem) issues no answer request and
\* leaves call_start, call_number and last_state as they were
C12_AsClaimed ==
    [][ ( /\ Takes("answer")
          /\ last_state # "incoming"
          /\ modem.state # "incoming" /\ modem' = modem )
        => /\ Count(trace', "Answer") = 0
           /\ call_start' = call_start
           /\ call_number' = call_number
           /\ last_state' = last_state ]_vars

\* an answer command with no call at all, every external call successful: the
\* snapshots of the idle state count the seconds since the command
C12_Failing ==
    /\ obs.by = "poll" /\ obs.faults = 0
    /\ cmd # << >> /\ cmd[1].action = "answer"
    /\ modem.id = 0 /\ last_state = "idle"
    /\ statusFile # << >> /\ statusFile[1].state = "idle"
    /\ statusFile[1].duration > 0

\* C13: taking a hangup, speaker or mute command leaves last_state,
\* call_number, call_start and the history file as they were; call_start and
\* call_number are cleared only by a poll that reads idle
C13_CommandsKeepSession ==
    [][ /\ (Takes("hangup") \/ Takes("speaker") \/ Takes("mute"))
            => /\ last_state' = last_state
               /\ call_number' = call_number
               /\ call_start' = call_start
               /\ historyFile' = historyFile
        /\ ( \/ (call_start # NoStart /\ call_start' = NoStart)
             \/ (call_number # "" /\ call_number' = "") )
            => (obs'.by = "poll" /\ obs'.polled = "idle") ]_vars

\* a hangup taken during an active call and relayed (HangupAll clears
\* active_call_path), and the poll after it read idle and cleared the session
C13_Witness ==
    /\ obs.by = "poll" /\ obs.prevBy = "cmd"
    /\ cmd # << >> /\ cmd[1].action = "hangup"
    /\ connected /\ active_call_path = NoCall /\ obs.faults = 0
    /\ obs.ended /\ obs.endPrev = "active"
    /\ call_start = NoStart /\ call_number = ""

\* C16: with no connection to the modem service the loop goes on with
\* last_state idle throughout: a command it takes is removed from the mailbox
\* and ends without a request to the modem and without an exception, and a
\* poll writes one snapshot, of the idle state
C16_IdleOnly ==
    ~connected =>
        /\ last_state = "idle"
        /\ obs.by = "cmd" =>
            /\ cmdFile = << >> \/ cmdFile[1].sid # cmd[1].sid
            /\ Count(trace, "Dial") + Count(trace, "HangupAll")
                   + Count(trace, "Answer") = 0
            /\ Count(trace, "raise") = 0
            /\ pc = "poll"
        /\ obs.by = "poll" =>
            /\ obs.polled = "idle"
            /\ Count(trace, "write_status") = 1
            /\ statusFile # << >> /\ statusFile[1].state = "idle"
            /\ pc = "top"

\* no connection, a call comes in at the modem, a command was taken from the
\* mailbox and the poll after it wrote a snapshot of the idle state
C16_Witness ==
    /\ ~connected
    /\ modem.state = "incoming"
    /\ obs.by = "poll" /\ obs.prevBy = "cmd" /\ obs.faults = 0
    /\ cmd # << >> /\ cmd[1].action \in {"dial", "hangup", "answer"}
    /\ cmdFile = << >>
    /\ statusFile # << >> /\ statusFile[1].state = "idle"

\* C17, as the specification states it: whatever external call fails in a
\* cycle, the poll leaves last_state at the state it polled, and the call-end
\* transition runs only in the cycle that first polls idle
C17_AsClaimed ==
    obs.by = "poll" =>
        /\ last_state = obs.polled
        /\ obs.added => obs.ended

\* the history file holds a JSON string: the poll read idle after an incoming
\* call, add_to_history raised, and last_state is still "incoming" with the
\* ringtone playing, so the next poll of idle runs the transition again
C17_Failing ==
    /\ obs.by = "poll" /\ obs.faults = 0
    /\ obs.polled = "idle" /\ obs.added
    /\ Count(trace, "raise") = 1
    /\ historyFile.kind = "string"
    /\ last_state = "incoming"
    /\ ringtone_process # NoProc

\* the step is a poll of the loop that took the call-end branch
CallEndStep ==
    /\ pc = "poll" \/ (pc = "top" /\ cmdFile = << >>)
    /\ pc' = "top" /\ now' # now
    /\ obs'.by = "poll" /\ obs'.added

\* C18, as the specification states it: the history file changes only in the
\* call-end branch of the loop; no command-line operation writes it
C18_AsClaimed == [][historyFile' # historyFile => CallEndStep]_vars

\* main's save_history has replaced the loop's history file with the value it
\* was given, which is no list, while the loop was running a call
C18_Failing ==
    /\ obs.cliSaved /\ obs.faults = 0
    /\ historyFile.kind = "string"
    /\ obs.by = "poll" /\ last_state = "incoming"

\* C19, as the specification states it: after the loop has read a mailbox
\* file that does not parse, it has sent no request to the modem and the
\* mailbox is empty
C19_AsClaimed ==
    obs.by = "badcmd" =>
        /\ Count(trace, "Dial") + Count(trace, "HangupAll")
               + Count(trace, "Answer") + Count(trace, "pactl") = 0
        /\ cmdFile = << >>

\* the file that did not parse is still in the mailbox when the loop has
\* polled and comes round again, with nobody having written the mailbox since
C19_Failing ==
    /\ obs.by = "poll" /\ obs.prevBy = "badcmd"
    /\ pc = "top"
    /\ cmdFile # << >> /\ ~cmdFile[1].json
    /\ obs.acted = << >> /\ obs.faults = 0

\* C22, as the specification states it: a poll that reads idle with last_state
\* active, alerting, dialing or incoming saves the entry, clears call_start
\* and call_number, stops the ringtone, resets the audio route and queries the
\* radio technology for the restore, in this order, whatever the call was
C22_AsClaimed ==
    (obs.by = "poll" /\ obs.added) =>
        LET h == IndexOf(trace, "save_history", "")
            t == IndexOf(trace, "terminate", "ringtone")
            p == IndexOf(trace, "pactl", TeardownCmds[1])
            r == IndexOf(trace, "get_radio_mode", "")
        IN  /\ h >= 1 /\ p > h /\ r > p
            /\ t # 0 => h < t /\ t < p
            /\ call_start = NoStart /\ call_number = ""

\* the history file holds a JSON string: the poll that found the incoming call
\* gone stopped in add_to_history, with the session kept, the ringtone not
\* terminated, the route not reset and the technology not queried
C22_Failing ==
    /\ obs.by = "poll" /\ obs.added /\ obs.faults = 0
    /\ obs.polled = "idle" /\ last_state = "incoming"
    /\ call_number # ""
    /\ ringtone_process \in procs
    /\ Count(trace, "save_history") + Count(trace, "terminate")
           + Count(trace, "pactl") + Count(trace, "get_radio_mode") = 0

\* the step is the rest of an iteration of the loop, from get_status on
PollStep == pc' = "top" /\ now' # now

\* C23: a poll sets the voice-call route up exactly when it reads active with
\* last_state not active, once, after terminating the ringtone if there is a
\* handle; a poll that reads active with last_state active does not
C23_SetupOnBecomingActive ==
    [][ PollStep =>
          LET s == IndexOf(trace', "pactl", SetupCmds[1])
              t == IndexOf(trace', "terminate", "ringtone")
              n == Cardinality({i \in 1..Len(trace') :
                                   trace'[i].op = "pactl"
                                   /\ trace'[i].arg = SetupCmds[1]})
          IN  IF obs'.polled = "active" /\ last_state # "active"
              THEN /\ n = 1
                   /\ ringtone_process # NoProc => t >= 1 /\ t < s
                   /\ last_state' = "active"
              ELSE s = 0 ]_vars

\* the ringing call was answered: the poll terminated the ringtone and then ran
\* the seven sub-commands of the route
C23_Witness ==
    /\ obs.by = "poll" /\ obs.polled = "active" /\ obs.faults = 0
    /\ Len(trace) = 1 + Len(SetupCmds) + 1
    /\ trace[1] = Op("terminate", "ringtone", "ok")
    /\ \A i \in 1..Len(SetupCmds) : trace[i + 1] = Op("pactl", SetupCmds[i], "ok")
    /\ ringtone_process = NoProc
    /\ route.profile = "voicecall" /\ route.outputPort = "earpiece"

\* C24: a poll that reads incoming with last_state idle puts the number of the
\* modem's report in call_number, then writes the haptic pulse, queries the
\* technology, switches and sleeps the settle delay if it is not gsm, and
\* starts the ringtone last; no other poll writes the pulse or starts a
\* ringtone, and one that reads incoming leaves call_number as it is
C24_IncomingFromIdle ==
    [][ PollStep =>
          LET hp == IndexOf(trace', "haptic", "click")
              g == IndexOf(trace', "get_radio_mode", "")
              sw == IndexOf(trace', "set_radio_mode", "gsm")
              w == IndexOf(trace', "sleep", "settle")
              pp == IndexOf(trace', "Popen", "paplay")
          IN  IF obs'.polled = "incoming" /\ last_state = "idle"
              THEN /\ call_number' = modem'.number
                   /\ hp >= 1 /\ g > hp
                   /\ IF sw # 0 THEN sw > g /\ w > sw ELSE w = 0
                   /\ pp # 0 => pp > g /\ pp > w
                   /\ obs'.faults = obs.faults =>
                          pp # 0 /\ ringtone_process' \in procs'
              ELSE /\ hp = 0 /\ sw = 0 /\ w = 0 /\ pp = 0
                   /\ ringVars' = ringVars \/ ringtone_process' \notin procs'
                   /\ obs'.polled = "incoming" => call_number' = call_number ]_vars

\* a call came in with the technology at lte: pulse, query, switch, settle
\* delay, ringtone, and the caller's number in call_number
C24_Witness ==
    /\ obs.by = "poll" /\ obs.polled = "incoming" /\ obs.faults = 0
    /\ trace = << Op("haptic", "click", "ok"), Op("get_radio_mode", "", "lte"),
                  Op("set_radio_mode", "gsm", "ok"), Op("sleep", "settle", ""),
                  Op("Popen", "paplay", "ok"),
                  Op("write_status", "incoming", "ok") >>
    /\ call_number = modem.number /\ call_number \in Numbers
    /\ ringtone_process \in procs
    /\ radioTech = "gsm"

\* a dial command was taken in the running iteration and its request accepted
DialTaken ==
    /\ pc = "poll" /\ obs.takes = 1
    /\ cmd # << >> /\ cmd[1].action = "dial"
    /\ Op("Dial", cmd[1].number, "ok") \in Ops(trace)

\* C25, as the specification states it: the poll of an iteration comes before
\* the command of that iteration, so the state it reads does not show the call
\* of a dial command taken in the same iteration
C25_AsClaimed ==
    [][ (PollStep /\ DialTaken) => obs'.polled # "dialing" ]_vars

\* C25, amended: a command is taken at the top of an iteration, before the
\* poll of that iteration, and the poll reads the state the command has left:
\* after an accepted dial request it reads dialing in the same iteration
C25_DrainBeforePoll ==
    [][ /\ obs'.takes = obs.takes + 1 => pc = "top" /\ pc' = "poll"
        /\ (PollStep /\ DialTaken /\ obs'.faults = obs.faults) =>
               /\ obs'.polled = "dialing"
               /\ last_state' = "dialing" ]_vars

\* a dial command taken with the modem idle, and the poll of the same
\* iteration, the step after it, read the call it set up
C25_Witness ==
    /\ obs.by = "poll" /\ obs.prevBy = "cmd" /\ obs.faults = 0
    /\ cmd # << >> /\ cmd[1].action = "dial"
    /\ obs.polled = "dialing" /\ last_state = "dialing"
    /\ modem.number = cmd[1].number /\ call_number = cmd[1].number
    /\ statusFile # << >> /\ statusFile[1].state = "dialing"

\* C26, as the specification states it: last_state, and the state of the
\* snapshot, is always one of idle, incoming, dialing, alerting and active
C26_AsClaimed ==
    /\ last_state \in EndStates \cup {"idle"}
    /\ statusFile # << >> => statusFile[1].state \in EndStates \cup {"idle"}

\* the active call was put on hold: the poll recorded the modem's word as it
\* came and wrote it into the snapshot
C26_Failing ==
    /\ obs.by = "poll" /\ obs.faults = 0
    /\ modem.state = "held" /\ obs.polled = "held"
    /\ last_state = "held"
    /\ statusFile # << >> /\ statusFile[1].state = "held"
    /\ obs.activeAt # 0

\* C27, as the specification states it: the entry appended when a call is
\* found gone has the number of that call, the one the modem reported for it
C27_AsClaimed ==
    [][ (PollStep /\ obs'.added /\ modem.state # "idle") =>
            obs'.entry.number = modem.number ]_vars

\* a call that the loop first polled when it was active already (it came in
\* and was answered between two polls), every external call successful: the
\* entry saved at its end has the empty number
C27_Failing ==
    /\ obs.by = "poll" /\ obs.faults = 0
    /\ obs.added /\ obs.endPrev = "active"
    /\ modem.id >= 1
    /\ obs.entry.number = ""
    /\ historyFile.kind = "list" /\ historyFile.entries[1] = obs.entry

\* C28, as the specification states it: the entry of a call that a dial
\* request set up has direction "outgoing", however the call went on
C28_AsClaimed ==
    (obs.added /\ obs.dialled # NoCall /\ obs.dialled = modem.id) =>
        obs.entry.direction = "outgoing"

\* a dial command, the call polled dialing and then active, every external
\* call successful: the entry saved at its end has direction "incoming"
C28_Failing ==
    /\ obs.by = "poll" /\ obs.added /\ obs.faults = 0
    /\ cmd # << >> /\ cmd[1].action = "dial"
    /\ obs.dialled = modem.id /\ modem.id >= 1
    /\ obs.endPrev = "active"
    /\ obs.entry.number = cmd[1].number
    /\ obs.entry.direction = "incoming"

\* C29, as the specification states it: when a dial command has switched the
\* technology to gsm and the poll after it finds no call at the modem, the
\* restore is run
C29_AsClaimed ==
    [][ ( /\ PollStep /\ pc = "poll"
          /\ Op("set_radio_mode", "gsm", "ok") \in Ops(trace)
          /\ obs'.polled = "idle" /\ modem'.state = "idle" )
        => Count(trace', "get_radio_mode") >= 1 ]_vars

\* a dial command taken with the technology at lte and no connection to the
\* modem service: the switch was made, the request was not, and two polls of
\* idle later the technology is still gsm with nothing left to restore it
C29_Failing ==
    /\ obs.by = "poll" /\ obs.prevBy = "poll" /\ obs.faults = 0
    /\ ~connected
    /\ cmd # << >> /\ cmd[1].action = "dial" /\ Len(obs.acted) = 1
    /\ obs.techBefore = "lte" /\ radioTech = "gsm"
    /\ modem.state = "idle" /\ modem.id = 0
    /\ last_state = "idle" /\ obs.polled = "idle"
    /\ Count(trace, "get_radio_mode") = 0

\* C31, as the specification states it: after a poll that read idle, in an
\* iteration that took no dial command, the session is clear: call_number is
\* empty and call_start is None
C31_AsClaimed ==
    (/\ obs.by = "poll" /\ obs.polled = "idle"
     /\ ~(obs.prevBy = "cmd" /\ cmd[1].action = "dial"))
        => call_number = "" /\ call_start = NoStart

\* an answer command taken when the modem never had a call, every external
\* call successful: the poll of that iteration and the one after it read
\* idle, the start time the command set is still there, and the snapshot of
\* the idle modem shows a running duration
C31_Failing ==
    /\ obs.by = "poll" /\ obs.prevBy = "poll" /\ obs.faults = 0
    /\ obs.acted = << 1 >> /\ cmd[1].action = "answer"
    /\ modem.id = 0 /\ obs.polled = "idle" /\ last_state = "idle"
    /\ call_number = "" /\ call_start # NoStart
    /\ statusFile # << >> /\ statusFile[1].duration > 0

\* C32, as the specification states it: a poll that read idle or active ends
\* with no ringtone handle held, play_ringtone is not called while a handle of
\* an earlier start is held, and at most one ringtone process is alive
C32_AsClaimed ==
    [][ PollStep =>
            /\ obs'.polled \in {"idle", "active"} => ringtone_process' = NoProc
            /\ Count(trace', "Popen") > 0 => ringtone_process = NoProc
            /\ Cardinality(procs') <= 1 ]_vars

\* a call rang, was answered and put on hold between two polls, and went
\* away; the next call rings. No external call failed and no command was
\* submitted: the handle of the first ringtone was held through the idle poll,
\* the second start replaced it, and both processes can be playing
C32_Failing ==
    /\ obs.by = "poll" /\ obs.faults = 0 /\ obs.submits = 0
    /\ obs.polled = "incoming" /\ modem.id = 2 /\ obs.endPrev = "held"
    /\ Op("Popen", "paplay", "ok") \in Ops(trace)
    /\ spawned = 2 /\ ringtone_process = 2
    /\ procs = {1, 2}
    /\ historyFile = NoHistory

----------------------------------------------------------------------------
(* Claims about the Command Mailbox *)

\* C30, as the specification states it: the file the loop removes is the one
\* it has read, so no submission is removed unread
C30_AsClaimed ==
    [][ (pc = "remove" /\ pc' = "top") =>
            cmdFile # << >> /\ cmdFile[1] = cmd[1] ]_vars

\* the loop read the first submission, the writer then opened the mailbox and
\* wrote the second, and the loop's os.remove took that one away: it was
\* written in full, never read, and the mailbox is empty
C30_Failing ==
    /\ obs.by = "remove" /\ obs.prevBy = "dump"
    /\ pc = "top"
    /\ obs.submits = 2 /\ obs.writing = << >>
    /\ obs.acted = << 1 >>
    /\ cmdFile = << >>

----------------------------------------------------------------------------
(* Claims about the Call History Store *)

MostRecentFirst(h) == \A i \in 1..(Len(h) - 1) : h[i].timestamp > h[i + 1].timestamp

SaveSucceeded(log) == Op("save_history", "", "ok") \in Ops(log)

\* what add_to_history read, given the file and the log of the append
Loaded(f, log) ==
    IF Op("load_history", "", "ok") \in Ops(log) THEN f.entries ELSE << >>

\* C5: the store never holds more than 100 entries and is ordered most recent
\* first; every append that is written puts the new entry at index 0, in front
\* of the entries it read, of which it drops the oldest beyond the cap
C5_CappedMostRecentFirst ==
    /\ [](/\ Len(historyFile.entries) <= HistoryCap
          /\ MostRecentFirst(historyFile.entries))
    /\ [][obs'.by = "append" /\ SaveSucceeded(trace') =>
            /\ historyFile'.entries[1] = obs'.entry
            /\ Tail(historyFile'.entries)
                 = Take(Loaded(historyFile, trace'), HistoryCap - 1)]_vars

\* an append onto a full store: the entry of time 1 has been dropped
C5_Witness ==
    /\ obs.by = "append" /\ obs.faults = 0
    /\ Len(historyFile.entries) = HistoryCap
    /\ historyFile.entries[1] = obs.entry
    /\ historyFile.entries[HistoryCap].timestamp > 1

\* the first HistoryCap - 1 entries of the list L are in the file f, in their
\* order: f holds L as it was, or one new entry followed by them
Kept(L, f) ==
    /\ f.kind = "list"
    /\ \/ f.entries = L
       \/ /\ f.entries # << >>
          /\ SubSeq(f.entries, 2, Len(f.entries)) = Take(L, HistoryCap - 1)

\* C33, as the specification states it: an append to a store that holds the
\* list L leaves the new entry followed by the first 99 entries of L, and
\* when the read or the write of the file fails, none of those 99 is lost
C33_AsClaimed ==
    [][ (obs'.by = "append" /\ historyFile.kind = "list") =>
            /\ obs'.faults = obs.faults =>
                   historyFile' = [kind |-> "list",
                                   entries |-> << obs'.entry >> \o
                                       Take(historyFile.entries, HistoryCap - 1)]
            /\ Kept(historyFile.entries, historyFile') ]_vars

\* the third append, whose read of the file failed and whose write succeeded:
\* the file holds the new entry alone, the two before it are gone
C33_Failing ==
    /\ obs.by = "append" /\ obs.prevBy = "append"
    /\ now = 4 /\ obs.faults = 1
    /\ trace = << Op("load_history", "", "failed"), Op("save_history", "", "ok") >>
    /\ historyFile = [kind |-> "list", entries |-> << obs.entry >>]

----------------------------------------------------------------------------
(* Claims about the Audio Route Controller *)

\* C8: SetMute(true) commands the earpiece output before the microphone mute,
\* whatever the route was and however the sub-commands end; the route commanded
\* afterwards has the speaker off and the microphone muted
C8_MuteDisablesSpeaker ==
    obs.by = "mute_on" =>
        LET e == IndexOf(trace, "pactl", "set-sink-port output-earpiece")
            m == IndexOf(trace, "pactl", "set-source-mute 1")
        IN  /\ e >= 1
            /\ e < m
            /\ route.outputPort = "earpiece"
            /\ route.micMuted

\* SetMute(true) processed with the speaker on and the microphone open
C8_Witness ==
    /\ obs.by = "mute_on"
    /\ obs.routeBefore.outputPort = "speaker"
    /\ ~obs.routeBefore.micMuted
    /\ route.outputPort = "earpiece"
    /\ route.micMuted

\* the log is one run_pactl per sub-command of cmds, in the order of cmds
AttemptsAll(log, cmds) ==
    /\ Len(log) = Len(cmds)
    /\ \A i \in 1..Len(cmds) : log[i].op = "pactl" /\ log[i].arg = cmds[i]

\* C14, as the specification states it: setup_call_audio and
\* teardown_call_audio attempt every sub-command of their list once and in
\* order, whatever the outcome of the sub-commands before it
C14_AsClaimed ==
    /\ obs.by = "setup" => AttemptsAll(trace, SetupCmds)
    /\ obs.by = "teardown" => AttemptsAll(trace, TeardownCmds)

\* the profile switch of setup_call_audio ran into the timeout of
\* subprocess.run: the six sub-commands after it were not attempted and the
\* earpiece was not selected
C14_Failing ==
    /\ obs.by = "setup"
    /\ trace = << Op("pactl", SetupCmds[1], "raise") >>
    /\ obs.routeBefore.outputPort = "speaker"
    /\ route.outputPort = "speaker"

\* every run_pactl of the log returned True
AllSucceeded(log) == \A i \in 1..Len(log) : log[i].res = "ok"

\* C15, as the specification states it: after a teardown_call_audio whose
\* sub-commands all succeed the route is the default one in all four fields,
\* whatever it was before, and a second teardown leaves it as it is
C15_AsClaimed ==
    (obs.by = "teardown" /\ AllSucceeded(trace)) =>
        /\ route = DefaultRoute
        /\ teardown_call_audio(route, [i \in 1..MaxPactl |-> "ok"]).route = route

\* the call ended with the microphone muted: the three sub-commands succeeded
\* and the microphone is still muted in the default profile
C15_Failing ==
    /\ obs.by = "teardown" /\ AllSucceeded(trace)
    /\ AttemptsAll(trace, TeardownCmds)
    /\ obs.routeBefore.micMuted /\ obs.routeBefore.profile = "voicecall"
    /\ route = [DefaultRoute EXCEPT !.micMuted = TRUE]

----------------------------------------------------------------------------
(* Claims about the Radio Technology Controller *)

Switches(log) == Count(log, "set_radio_mode")

Settles(log) == Count(log, "sleep")

TwoForces == obs.prevBy = "force" /\ obs.by = "force"

RestoreAfterForce ==
    /\ obs.by = "restore" /\ obs.prevBy = "force"
    /\ obs.prevTrace # << >> /\ obs.prevTrace[1].res \in RadioTechs

\* C20, as the specification states it: when the call found the technology at
\* gsm and issued no switch, the restore at its end leaves the technology as it
\* is, and the restore sets no other technology than the one found before the
\* call
C20_AsClaimed ==
    RestoreAfterForce =>
        /\ Switches(obs.prevTrace) = 0 => radioTech = obs.techBefore
        /\ Op("set_radio_mode", "lte", "ok") \in Ops(trace) =>
               obs.prevTrace[1].res = "lte"

\* the technology was gsm before the call, no switch was issued for the call,
\* and the restore at its end has set lte
C20_Failing ==
    /\ RestoreAfterForce
    /\ obs.prevTrace = << Op("get_radio_mode", "", "gsm") >>
    /\ obs.techBefore = "gsm"
    /\ Op("set_radio_mode", "lte", "ok") \in Ops(trace)
    /\ radioTech = "lte"

----------------------------------------------------------------------------
(* Claims about the Feedback Controller *)

TerminateRaised(log) == Op("terminate", "ringtone", "raised") \in Ops(log)

Raised(log) == Count(log, "raise") > 0

\* C10 as claimed: called when no ringtone is running, or for the second time
\* in succession, stopRingtone leaves the handle at none and raises nothing,
\* also when terminating the process fails
C10_AsClaimed ==
    obs.by = "stop" /\ (~obs.runningBefore \/ obs.prevBy = "stop") =>
        ringtone_process = NoProc /\ ~Raised(trace)

\* C10 as amended: stopRingtone never raises; it leaves the handle at none
\* unless terminating the process failed, and then it keeps the handle; a call
\* right after a call that left no handle does nothing
C10_StopIdempotent ==
    obs.by = "stop" =>
        /\ ~Raised(trace)
        /\ ~TerminateRaised(trace) => ringtone_process = NoProc
        /\ TerminateRaised(trace) => ringtone_process = obs.handleBefore
        /\ obs.prevBy = "stop" /\ ~TerminateRaised(obs.prevTrace) =>
               trace = << >> /\ ringtone_process = NoProc

\* a running ringtone stopped, and stopRingtone called once more
C10_Witness ==
    /\ obs.by = "stop" /\ obs.prevBy = "stop"
    /\ Op("terminate", "ringtone", "ok") \in Ops(obs.prevTrace)
    /\ trace = << >>
    /\ ringtone_process = NoProc

\* C21, as the specification states it: when the loop is stopped from outside
\* while the ringtone process runs, stop_ringtone is called before the loop is
\* left and the process does not run on
C21_AsClaimed ==
    (obs.by = "interrupt" /\ obs.runningBefore) =>
        /\ Count(trace, "terminate") = 1
        /\ ringtone_process \notin procs

\* the ringtone was started, the loop was interrupted next, and the process of
\* the ringtone still runs with the daemon gone
C21_Failing ==
    /\ pc = "exit"
    /\ obs.by = "interrupt" /\ obs.prevBy = "play"
    /\ Count(trace, "terminate") = 0
    /\ ringtone_process # NoProc /\ ringtone_process \in procs

============================================================================
